---- MODULE Spec2Model ----
(***************************************************************************)
(* ORACLE API (api/index.py): the streaming pipeline run_pipeline, the     *)
(* step runner llm_stream and the route run_outreach, as a state machine.  *)
(*                                                                         *)
(* Text.  A Python str is a sequence of atoms.  An atom is a TLA+ string   *)
(* standing for a fixed run of characters; the quote character Q and the   *)
(* backslash BS are atoms of their own, so that the escaping of json.dumps *)
(* and the unescaping of json.loads are computed character by character    *)
(* where they matter.  No word atom contains a quote or a backslash, and   *)
(* no word atom is a part of another, so a substring test on the           *)
(* characters is the contiguous-subsequence test on the atoms.             *)
(***************************************************************************)
EXTENDS Naturals, Sequences, FiniteSets

\* ------------------------------------------------------------------ bounds

\* Chunks the backend delivers to one request, over all its streams.
MaxChunks == 2
\* Chunks the backend delivers to the request of LiveSpec.
LiveChunks == 1
\* Chunks and failures the backend produces over both requests of PairSpec.
PairChunks == 1
PairFails == 1

\* ------------------------------------------------------------------ text

Q == "\""
BS == "\\"
SP == " "
NL2 == "\n\n"

IsSpace(a) == a \in {SP, NL2, "\n"}

RECURSIVE LStrip(_)
LStrip(s) == IF s # <<>> /\ IsSpace(Head(s)) THEN LStrip(Tail(s)) ELSE s

RECURSIVE RStrip(_)
RStrip(s) ==
    IF s # <<>> /\ IsSpace(s[Len(s)]) THEN RStrip(SubSeq(s, 1, Len(s) - 1)) ELSE s

\* str.strip()
Strip(s) == RStrip(LStrip(s))

\* "".join(parts)
RECURSIVE Join(_)
Join(parts) == IF parts = <<>> THEN <<>> ELSE Head(parts) \o Join(Tail(parts))

\* sep.join(parts)
RECURSIVE JoinSep(_, _)
JoinSep(sep, parts) ==
    IF parts = <<>> THEN <<>>
    ELSE IF Len(parts) = 1 THEN Head(parts)
    ELSE Head(parts) \o sep \o JoinSep(sep, Tail(parts))

\* needle in hay
Contains(hay, needle) ==
    \E i \in 1..(Len(hay) + 1) :
        /\ i + Len(needle) - 1 <= Len(hay)
        /\ SubSeq(hay, i, i + Len(needle) - 1) = needle

\* ------------------------------------------------------------------ json

\* Mutant of Escape: the text is put between the quotes as it is.
EscapeNone(s) == s

\* json.dumps of a str: the quote and the backslash are escaped.
RECURSIVE Escape(_)
Escape(s) ==
    IF s = <<>> THEN <<>>
    ELSE IF Head(s) \in {Q, BS} THEN <<BS, Head(s)>> \o Escape(Tail(s))
    ELSE <<Head(s)>> \o Escape(Tail(s))

JsonStr(s) == <<Q>> \o Escape(s) \o <<Q>>

\* json.dumps of a dict whose keys and values are str; a dict is the sequence
\* of its <<key, value>> items in insertion order.
RECURSIVE DumpItems(_)
DumpItems(items) ==
    IF items = <<>> THEN <<>>
    ELSE LET kv == Head(items)
             one == JsonStr(kv[1]) \o <<": ">> \o JsonStr(kv[2])
         IN  IF Len(items) = 1 THEN one ELSE one \o <<", ">> \o DumpItems(Tail(items))

dumps(event) == <<"{">> \o DumpItems(event) \o <<"}">>

\* The scanner of json.loads for a string literal; s[i - 1] is the opening
\* quote.  [ok, val, next]: next is the index after the closing quote.
RECURSIVE ScanString(_, _, _)
ScanString(s, i, acc) ==
    IF i > Len(s) THEN [ok |-> FALSE, val |-> acc, next |-> i]
    ELSE IF s[i] = Q THEN [ok |-> TRUE, val |-> acc, next |-> i + 1]
    ELSE IF s[i] = BS
         THEN IF i + 1 > Len(s) \/ s[i + 1] \notin {Q, BS}
              THEN [ok |-> FALSE, val |-> acc, next |-> i]
              ELSE ScanString(s, i + 2, Append(acc, s[i + 1]))
    ELSE ScanString(s, i + 1, Append(acc, s[i]))

\* The members of an object from index i on.  [ok, items, next].
RECURSIVE ScanItems(_, _, _)
ScanItems(s, i, acc) ==
    LET bad == [ok |-> FALSE, items |-> acc, next |-> i]
    IN  IF i > Len(s) \/ s[i] # Q THEN bad
        ELSE LET k == ScanString(s, i + 1, <<>>)
             IN  IF ~k.ok \/ k.next + 1 > Len(s) \/ s[k.next] # ": "
                    \/ s[k.next + 1] # Q
                 THEN bad
                 ELSE LET v == ScanString(s, k.next + 2, <<>>)
                          got == Append(acc, <<k.val, v.val>>)
                      IN  IF ~v.ok \/ v.next > Len(s) THEN bad
                          ELSE IF s[v.next] = "}"
                               THEN [ok |-> TRUE, items |-> got, next |-> v.next + 1]
                          ELSE IF s[v.next] = ", " THEN ScanItems(s, v.next + 1, got)
                          ELSE bad

\* json.loads of an object of strings; surrounding whitespace is allowed.
\* [ok, items]: ok is FALSE where json.loads raises.
loads(s) ==
    LET t == Strip(s)
        bad == [ok |-> FALSE, items |-> <<>>]
    IN  IF t = <<>> \/ Head(t) # "{" THEN bad
        ELSE IF Len(t) >= 2 /\ t[2] = "}"
             THEN [ok |-> Len(t) = 2, items |-> <<>>]
        ELSE LET r == ScanItems(t, 2, <<>>)
             IN  IF r.ok /\ r.next = Len(t) + 1
                 THEN [ok |-> TRUE, items |-> r.items]
                 ELSE bad

HasKey(items, key) == \E i \in 1..Len(items) : items[i][1] = key

\* d[key] for a key of d; a later item of the same key wins, as in a dict.
Get(items, key) ==
    LET idx == {i \in 1..Len(items) : items[i][1] = key}
    IN  items[CHOOSE i \in idx : \A j \in idx : j <= i][2]

\* ------------------------------------------------------------------ events

S(a) == <<a>>

AGENT_KEYS == <<"profile_summary", "deep_research", "fitness_eval", "strategy">>

\* sse(event)
sse(event) == <<"data: ">> \o dumps(event) \o <<NL2>>

\* chunk[6:]: the atom "data: " is the first six characters of every event chunk.
DropData(chunk) == Tail(chunk)

TERMINATOR == <<"data: ", "[DONE]", NL2>>

RunningEvent(k) == << <<S("agent"), S(k)>>, <<S("status"), S("running")>> >>

TokenEvent(k, token) ==
    << <<S("agent"), S(k)>>, <<S("status"), S("token")>>, <<S("token"), token>> >>

DoneEvent(k, output) ==
    << <<S("agent"), S(k)>>, <<S("status"), S("done")>>, <<S("output"), output>> >>

ErrorEvent(k, msg) ==
    << <<S("agent"), S(k)>>, <<S("status"), S("error")>>, <<S("error"), msg>> >>

\* The text run_pipeline looks for in a chunk: "status": "token"
STATUS_TOKEN == <<Q, "status", Q, ": ", Q, "token", Q>>

\* ------------------------------------------------------------------ inputs

\* The linkedin_pdf of a body: the field is not there (Missing), or a base64
\* document: "" (empty), not base64, base64 of bytes that are no PDF, or base64
\* of a PDF with the given page texts.
Missing == [kind |-> "missing", pages |-> <<>>]
NoDoc == [kind |-> "empty", pages |-> <<>>]
BadB64 == [kind |-> "badb64", pages |-> <<>>]
NotPdf == [kind |-> "notpdf", pages |-> <<>>]
Pdf(pages) == [kind |-> "pdf", pages |-> pages]

LinkedinDocs == {Missing, NoDoc, BadB64, Pdf(<< <<SP>> >>), Pdf(<< <<"L2">>, <<>> >>)}
ResumeDocs == {NoDoc, NotPdf, Pdf(<< <<"Q1">>, <<SP, "Q2">> >>)}
ResumeTexts == {<<>>, <<SP>>, <<"R", SP>>}

\* os.getenv("OPENAI_API_KEY"): <<>> is None, <<s>> is the str s.
ApiKeys == {<<>>, << <<>> >>, << <<"sk">> >>}

\* The process: the credential in the environment, and whether pypdf imports.
Envs == [api_key : ApiKeys, pypdf : BOOLEAN]

Requests == [linkedin_pdf : LinkedinDocs, resume : ResumeTexts, resume_pdf : ResumeDocs]

\* What the backend can send.  A chunk is the sequence of its choices, a choice
\* is its delta.content: <<>> is None, <<s>> is the str s.
Chunks ==
    { <<>>, << <<>> >>, << << <<>> >> >>, << << <<"a">> >> >>, << <<STATUS_TOKEN>> >> }

\* str(e) of a backend failure; the backend's reply is part of the message.
BackendErrors == { <<"Error code: 500 - {">> \o STATUS_TOKEN \o <<"}">> }

\* ------------------------------------------------------------------ extract_pdf_text, get_client

Raise(msg) == [raised |-> TRUE, value |-> msg]
Return(v) == [raised |-> FALSE, value |-> v]

extract_pdf_text(pdf_base64, e) ==
    IF ~e.pypdf THEN Raise(<<"pypdf not installed. Run: pip install pypdf">>)
    ELSE IF pdf_base64.kind = "badb64" THEN Raise(<<"Incorrect padding">>)
    ELSE IF pdf_base64.kind = "empty" THEN Raise(<<"Cannot read an empty file">>)
    ELSE IF pdf_base64.kind = "notpdf" THEN Raise(<<"EOF marker not found">>)
    ELSE LET text == Strip(JoinSep(<<NL2>>, pdf_base64.pages))
         IN  IF text = <<>>
             THEN Raise(<<"PDF is empty or image-only (scanned PDF not supported).">>)
             ELSE Return(text)

\* Mutant of get_client: only an unset variable counts as missing
\* (api_key is None), an empty one is passed on.
get_clientNoneOnly(e) ==
    IF e.api_key = <<>>
    THEN Raise(<<"OPENAI_API_KEY is not set.">>)
    ELSE Return(<<"AsyncOpenAI">>)

get_client(e) ==
    IF e.api_key = <<>> \/ e.api_key[1] = <<>>
    THEN Raise(<<"OPENAI_API_KEY is not set.">>)
    ELSE Return(<<"AsyncOpenAI">>)

\* ------------------------------------------------------------------ prompts

\* Mutant of SystemPrompt: the instructions of steps 2 and 3 are exchanged.
SystemPromptSwapped(i) ==
    S(<<"SYS_SUMMARIZER", "SYS_EVALUATOR", "SYS_RESEARCHER", "SYS_STRATEGIST">>[i])

SystemPrompt(i) ==
    S(<<"SYS_SUMMARIZER", "SYS_RESEARCHER", "SYS_EVALUATOR", "SYS_STRATEGIST">>[i])

\* Mutant of ResumeBlock: the test is "if resume", without strip().
ResumeBlockUnstripped(resume) ==
    IF resume # <<>> THEN <<"CANDIDATE RESUME:\n">> \o resume
    ELSE <<"No resume provided - evaluate generally.">>

\* resume_block; the dash of the placeholder is written "-" here.
ResumeBlock(resume) ==
    IF Strip(resume) # <<>> THEN <<"CANDIDATE RESUME:\n">> \o resume
    ELSE <<"No resume provided - evaluate generally.">>

\* Mutant of UserPrompt: the prompt of step 2 also carries the profile text.
UserPromptRaw(i, loc) ==
    IF i = 2
    THEN <<"\nResearch this HR manager's company based on their profile.\n\nHR MANAGER PROFILE:\n">>
         \o Join(loc.profile_summary) \o <<"\n\nLINKEDIN PROFILE TEXT:\n">> \o loc.linkedin_text
    ELSE <<"\n">> \o loc.resume_block \o loc.linkedin_text
         \o Join(loc.profile_summary) \o Join(loc.deep_research) \o Join(loc.fitness_eval)

\* The f-string of step i over the locals loc.
UserPrompt(i, loc) ==
    LET profile_summary_text == Join(loc.profile_summary)
        deep_research_text == Join(loc.deep_research)
        fitness_eval_text == Join(loc.fitness_eval)
    IN  CASE i = 1 ->
               <<"\nAnalyse this LinkedIn profile PDF text and extract a structured summary.\n\nLINKEDIN PROFILE TEXT:\n">>
               \o loc.linkedin_text
               \o <<"\n\nCover: name & title, career history (key milestones only), core skills,\neducation, personality signals, what they value in candidates.\n">>
          [] i = 2 ->
               <<"\nResearch this HR manager's company based on their profile.\n\nHR MANAGER PROFILE:\n">>
               \o profile_summary_text
               \o <<"\n\nCover: company overview, recent news, culture signals, current hiring trends,\nstrategic priorities, one unique angle a candidate could use in outreach.\nIf live data unavailable, reason from context and industry knowledge.\n">>
          [] i = 3 ->
               <<"\n">> \o loc.resume_block
               \o <<"\n\nHR MANAGER PROFILE:\n">> \o profile_summary_text
               \o <<"\n\nCOMPANY RESEARCH:\n">> \o deep_research_text
               \o <<"\n\nEvaluate: skills alignment, experience relevance, culture fit, gaps,\nunique value proposition, fit score 1-10 with justification.\n">>
          [] OTHER ->
               <<"\nYou are helping THE CANDIDATE write a message TO the HR manager.\nTHE CANDIDATE is the sender. THE HR MANAGER is the recipient.\n\n--- CANDIDATE'S BACKGROUND (the SENDER) ---\n">>
               \o loc.resume_block
               \o <<"\n\n--- HR MANAGER PROFILE (the RECIPIENT) ---\n">> \o profile_summary_text
               \o <<"\n\n--- COMPANY RESEARCH ---\n">> \o deep_research_text
               \o <<"\n\n--- FITNESS EVALUATION ---\n">> \o fitness_eval_text
               \o <<"\n\nNow produce:\n1. ## APPROACH STRATEGY ...\n2. ## OUTREACH MESSAGE ...\n">>

\* ------------------------------------------------------------------ state

Reqs == {1, 2}

VARIABLES
    env,      \* the process environment
    req,      \* req[r]: the body of request r
    pc,       \* pc[r]: where request r is
    step,     \* step[r]: index into AGENT_KEYS of the key being served
    local,    \* local[r]: the locals of run_pipeline and llm_stream
    stream,   \* stream[r]: the chunks the response of r took from the generator, in order
    calls,    \* calls[r]: the calls made to collaborators, in order
    budget,   \* what the backend may still produce
    response  \* response[r]: the HTTP response to r, and whether its client is there

vars == <<env, req, pc, step, local, stream, calls, budget, response>>

Locals(resume) ==
    [linkedin_text |-> <<>>, resume |-> resume, client |-> <<>>, resume_block |-> <<>>,
     profile_summary |-> <<>>, deep_research |-> <<>>, fitness_eval |-> <<>>,
     full_text |-> <<>>, chunk |-> <<>>, e |-> <<>>]

Call(fn, arg) == [fn |-> fn, arg |-> arg]

\* The response of the route: status 0 while there is none; detail is the
\* message of an error response; connected: the client is still reading.
Response(status, detail) == [status |-> status, detail |-> detail, connected |-> TRUE]

InitWith(active, bodies, b) ==
    /\ env \in Envs
    /\ req \in [Reqs -> bodies]
    /\ \A r \in Reqs \ active : req[r] = CHOOSE q \in bodies : TRUE
    /\ pc = [r \in Reqs |-> IF r \in active THEN "received" ELSE "absent"]
    /\ step = [r \in Reqs |-> 1]
    /\ local = [r \in Reqs |-> Locals(req[r].resume)]
    /\ stream = [r \in Reqs |-> <<>>]
    /\ calls = [r \in Reqs |-> <<>>]
    /\ budget = b
    /\ response = [r \in Reqs |-> Response(0, <<>>)]

\* One request.
Init == InitWith({1}, Requests, [chunks |-> MaxChunks, fails |-> Len(AGENT_KEYS)])

\* ------------------------------------------------------------------ run_outreach

\* Mutant of run_outreach: the body of the route does not look at linkedin_pdf
\* and streams the pipeline for every body that has the field.
run_outreachUnchecked(r) ==
    /\ pc[r] = "received"
    /\ IF req[r].linkedin_pdf = Missing
       THEN /\ pc' = [pc EXCEPT ![r] = "rejected"]
            /\ response' = [response EXCEPT ![r] = Response(422, <<"Field required">>)]
       ELSE /\ pc' = [pc EXCEPT ![r] = "extract_linkedin"]
            /\ response' = [response EXCEPT ![r] = Response(200, <<>>)]
    /\ UNCHANGED <<env, req, step, local, stream, calls, budget>>

\* POST /api/run.  The body is validated against RunRequest before the route
\* runs: without linkedin_pdf the framework answers 422.  The route raises
\* HTTPException(400) when linkedin_pdf is empty, else returns the
\* StreamingResponse over run_pipeline, which has not started yet.
run_outreach(r) ==
    /\ pc[r] = "received"
    /\ IF req[r].linkedin_pdf = Missing
       THEN /\ pc' = [pc EXCEPT ![r] = "rejected"]
            /\ response' = [response EXCEPT ![r] = Response(422, <<"Field required">>)]
       ELSE IF req[r].linkedin_pdf = NoDoc
       THEN /\ pc' = [pc EXCEPT ![r] = "rejected"]
            /\ response' = [response EXCEPT ![r] =
                                Response(400, <<"linkedin_pdf is required.">>)]
       ELSE /\ pc' = [pc EXCEPT ![r] = "extract_linkedin"]
            /\ response' = [response EXCEPT ![r] = Response(200, <<>>)]
    /\ UNCHANGED <<env, req, step, local, stream, calls, budget>>

\* ------------------------------------------------------------------ run_pipeline

\* Mutant of ExtractLinkedin: the failure is reported as str(e), unprefixed.
ExtractLinkedinUnprefixed(r) ==
    /\ pc[r] = "extract_linkedin"
    /\ LET x == extract_pdf_text(req[r].linkedin_pdf, env)
       IN  /\ calls' = [calls EXCEPT ![r] =
                           Append(@, Call("extract_pdf_text", <<req[r].linkedin_pdf>>))]
           /\ IF x.raised
              THEN /\ local' = [local EXCEPT ![r].e = x.value]
                   /\ pc' = [pc EXCEPT ![r] = "abort"]
              ELSE /\ local' = [local EXCEPT ![r].linkedin_text = x.value]
                   /\ pc' = [pc EXCEPT ![r] = "extract_resume"]
    /\ UNCHANGED <<env, req, response, step, stream, budget>>

\* try: linkedin_text = extract_pdf_text(linkedin_pdf)
ExtractLinkedin(r) ==
    /\ pc[r] = "extract_linkedin"
    /\ LET x == extract_pdf_text(req[r].linkedin_pdf, env)
       IN  /\ calls' = [calls EXCEPT ![r] =
                           Append(@, Call("extract_pdf_text", <<req[r].linkedin_pdf>>))]
           /\ IF x.raised
              THEN /\ local' = [local EXCEPT ![r].e = <<"LinkedIn PDF: ">> \o x.value]
                   /\ pc' = [pc EXCEPT ![r] = "abort"]
              ELSE /\ local' = [local EXCEPT ![r].linkedin_text = x.value]
                   /\ pc' = [pc EXCEPT ![r] = "extract_resume"]
    /\ UNCHANGED <<env, req, response, step, stream, budget>>

\* Mutant of ExtractResume: a resume document that does not extract is
\* dropped and the resume text is used instead.
ExtractResumeFallback(r) ==
    /\ pc[r] = "extract_resume"
    /\ IF req[r].resume_pdf # NoDoc
       THEN LET x == extract_pdf_text(req[r].resume_pdf, env)
            IN  /\ calls' = [calls EXCEPT ![r] =
                                Append(@, Call("extract_pdf_text", <<req[r].resume_pdf>>))]
                /\ local' = [local EXCEPT ![r].resume = IF x.raised THEN @ ELSE x.value]
                /\ pc' = [pc EXCEPT ![r] = "get_client"]
       ELSE /\ pc' = [pc EXCEPT ![r] = "get_client"]
            /\ UNCHANGED <<local, calls>>
    /\ UNCHANGED <<env, req, response, step, stream, budget>>

\* if resume_pdf: try: resume = extract_pdf_text(resume_pdf)
ExtractResume(r) ==
    /\ pc[r] = "extract_resume"
    /\ IF req[r].resume_pdf # NoDoc
       THEN LET x == extract_pdf_text(req[r].resume_pdf, env)
            IN  /\ calls' = [calls EXCEPT ![r] =
                                Append(@, Call("extract_pdf_text", <<req[r].resume_pdf>>))]
                /\ IF x.raised
                   THEN /\ local' = [local EXCEPT ![r].e = <<"Resume PDF: ">> \o x.value]
                        /\ pc' = [pc EXCEPT ![r] = "abort"]
                   ELSE /\ local' = [local EXCEPT ![r].resume = x.value]
                        /\ pc' = [pc EXCEPT ![r] = "get_client"]
       ELSE /\ pc' = [pc EXCEPT ![r] = "get_client"]
            /\ UNCHANGED <<local, calls>>
    /\ UNCHANGED <<env, req, response, step, stream, budget>>

\* try: client = get_client(); then resume_block
GetClient(r) ==
    /\ pc[r] = "get_client"
    /\ LET x == get_client(env)
       IN  /\ calls' = [calls EXCEPT ![r] = Append(@, Call("get_client", <<>>))]
           /\ IF x.raised
              THEN /\ local' = [local EXCEPT ![r].e = x.value]
                   /\ pc' = [pc EXCEPT ![r] = "abort"]
              ELSE /\ local' = [local EXCEPT ![r].client = x.value,
                                             ![r].resume_block = ResumeBlock(local[r].resume)]
                   /\ pc' = [pc EXCEPT ![r] = "running"]
    /\ UNCHANGED <<env, req, response, step, stream, budget>>

\* Mutant of AbortYield: the generator returns after the last error event
\* without yielding the terminator.
AbortYieldNoTerminator(r) ==
    /\ pc[r] = "abort"
    /\ stream' = [stream EXCEPT ![r] =
                     Append(@, sse(ErrorEvent(AGENT_KEYS[step[r]], local[r].e)))]
    /\ IF step[r] < Len(AGENT_KEYS)
       THEN /\ step' = [step EXCEPT ![r] = @ + 1]
            /\ pc' = pc
       ELSE /\ step' = step
            /\ pc' = [pc EXCEPT ![r] = "done"]
    /\ UNCHANGED <<env, req, response, local, calls, budget>>

\* Mutant of AbortYield: the except blocks do not end with the terminator and
\* return, so after the four error events the run falls through to the next
\* check.
AbortYieldFallsThrough(r) ==
    /\ pc[r] = "abort"
    /\ stream' = [stream EXCEPT ![r] =
                     Append(@, sse(ErrorEvent(AGENT_KEYS[step[r]], local[r].e)))]
    /\ IF step[r] < Len(AGENT_KEYS)
       THEN /\ step' = [step EXCEPT ![r] = @ + 1]
            /\ pc' = pc
       ELSE /\ step' = [step EXCEPT ![r] = 1]
            /\ pc' = [pc EXCEPT ![r] =
                         IF Head(local[r].e) = "LinkedIn PDF: " THEN "extract_resume"
                         ELSE IF Head(local[r].e) = "Resume PDF: " THEN "get_client"
                         ELSE "terminator"]
    /\ UNCHANGED <<env, req, response, local, calls, budget>>

\* for k in AGENT_KEYS: yield sse(error), one yield a step
AbortYield(r) ==
    /\ pc[r] = "abort"
    /\ stream' = [stream EXCEPT ![r] =
                     Append(@, sse(ErrorEvent(AGENT_KEYS[step[r]], local[r].e)))]
    /\ IF step[r] < Len(AGENT_KEYS)
       THEN /\ step' = [step EXCEPT ![r] = @ + 1]
            /\ pc' = pc
       ELSE /\ step' = step
            /\ pc' = [pc EXCEPT ![r] = "terminator"]
    /\ UNCHANGED <<env, req, response, local, calls, budget>>

\* The locals once llm_stream has returned: full_text and chunk are gone with
\* its frame.  It returns when run_pipeline, resumed after the done or error
\* event, asks it for the next chunk; until then it stands at its last yield.
Returned(loc) == [loc EXCEPT !.full_text = <<>>, !.chunk = <<>>]

\* Mutant of YieldRunning: the block of step 3 was pasted from step 2 and
\* still announces the key of step 2.
YieldRunningPasted(r) ==
    /\ pc[r] = "running"
    /\ stream' = [stream EXCEPT ![r] =
                     Append(@, sse(RunningEvent(AGENT_KEYS[IF step[r] = 3 THEN 2 ELSE step[r]])))]
    /\ local' = [local EXCEPT ![r] = Returned(@)]
    /\ pc' = [pc EXCEPT ![r] = "create"]
    /\ UNCHANGED <<env, req, response, step, calls, budget>>

\* the llm_stream of the step before, if any, returns;
\* yield sse({"agent": key, "status": "running"})
YieldRunning(r) ==
    /\ pc[r] = "running"
    /\ stream' = [stream EXCEPT ![r] = Append(@, sse(RunningEvent(AGENT_KEYS[step[r]])))]
    /\ local' = [local EXCEPT ![r] = Returned(@)]
    /\ pc' = [pc EXCEPT ![r] = "create"]
    /\ UNCHANGED <<env, req, response, step, calls, budget>>

\* The token list run_pipeline keeps for step i; step 4 keeps none.
Capturing(i, chunk) == i <= 3 /\ Contains(chunk, STATUS_TOKEN)

\* json.loads(chunk[6:])["token"] raises
CaptureRaises(i, chunk) ==
    /\ Capturing(i, chunk)
    /\ LET d == loads(DropData(chunk)) IN ~d.ok \/ ~HasKey(d.items, S("token"))

\* Mutant of Captured: the result of a step is taken from the output of its
\* done event, so a step that fails leaves no result.
CapturedFromDone(loc, i, chunk) ==
    IF ~(i <= 3 /\ Contains(chunk, <<Q, "status", Q, ": ", Q, "done", Q>>)) THEN loc
    ELSE LET output == Get(loads(DropData(chunk)).items, S("output"))
         IN  CASE i = 1 -> [loc EXCEPT !.profile_summary = <<output>>]
               [] i = 2 -> [loc EXCEPT !.deep_research = <<output>>]
               [] OTHER -> [loc EXCEPT !.fitness_eval = <<output>>]

\* the locals after the body of the async for over llm_stream, for one chunk
Captured(loc, i, chunk) ==
    IF ~Capturing(i, chunk) THEN loc
    ELSE LET token == Get(loads(DropData(chunk)).items, S("token"))
         IN  CASE i = 1 -> [loc EXCEPT !.profile_summary = Append(@, token)]
               [] i = 2 -> [loc EXCEPT !.deep_research = Append(@, token)]
               [] OTHER -> [loc EXCEPT !.fitness_eval = Append(@, token)]

\* Mutant of Relay: a step that ends with an error event ends the pipeline.
RelayAbortOnError(r, chunk, loc, last) ==
    /\ stream' = [stream EXCEPT ![r] = Append(@, chunk)]
    /\ local' = [local EXCEPT ![r] = Captured(loc, step[r], chunk)]
    /\ IF ~last THEN UNCHANGED <<pc, step>>
       ELSE IF step[r] < Len(AGENT_KEYS) /\ ~Contains(chunk, <<Q, "error", Q>>)
       THEN /\ pc' = [pc EXCEPT ![r] = "running"]
            /\ step' = [step EXCEPT ![r] = @ + 1]
       ELSE /\ pc' = [pc EXCEPT ![r] = "terminator"]
            /\ step' = step

\* Mutant of Relay: the token lists are module-level, one list of each name for
\* all the requests in flight.
RelayShared(r, chunk, loc, last) ==
    /\ stream' = [stream EXCEPT ![r] = Append(@, chunk)]
    /\ LET mine == Captured(loc, step[r], chunk)
       IN  local' = [o \in Reqs |->
                        IF o = r THEN mine
                        ELSE [local[o] EXCEPT !.profile_summary = mine.profile_summary,
                                              !.deep_research = mine.deep_research,
                                              !.fitness_eval = mine.fitness_eval]]
    /\ IF ~last THEN UNCHANGED <<pc, step>>
       ELSE IF step[r] < Len(AGENT_KEYS)
       THEN /\ pc' = [pc EXCEPT ![r] = "running"]
            /\ step' = [step EXCEPT ![r] = @ + 1]
       ELSE /\ pc' = [pc EXCEPT ![r] = "terminator"]
            /\ step' = step

\* run_pipeline receives chunk from llm_stream and yields it; last: the chunk
\* ends the step.  loc: the locals as llm_stream left them.  Once the client
\* has gone the response may refuse the chunk, which ends the generator.
Relay(r, chunk, loc, last) ==
    IF CaptureRaises(step[r], chunk)
    THEN /\ pc' = [pc EXCEPT ![r] = "crashed"]
         /\ local' = [local EXCEPT ![r] = loc]
         /\ UNCHANGED <<step, stream>>
    ELSE \/ /\ stream' = [stream EXCEPT ![r] = Append(@, chunk)]
            /\ local' = [local EXCEPT ![r] = Captured(loc, step[r], chunk)]
            /\ IF ~last THEN UNCHANGED <<pc, step>>
               ELSE IF step[r] < Len(AGENT_KEYS)
               THEN /\ pc' = [pc EXCEPT ![r] = "running"]
                    /\ step' = [step EXCEPT ![r] = @ + 1]
               ELSE /\ pc' = [pc EXCEPT ![r] = "terminator"]
                    /\ step' = step
         \/ /\ ~response[r].connected
            /\ pc' = [pc EXCEPT ![r] = "closed"]
            /\ local' = [local EXCEPT ![r] = Captured(loc, step[r], chunk)]
            /\ UNCHANGED <<step, stream>>

\* the llm_stream of step 4, if it ran, returns; yield "data: [DONE]\n\n"
YieldTerminator(r) ==
    /\ pc[r] = "terminator"
    /\ stream' = [stream EXCEPT ![r] = Append(@, TERMINATOR)]
    /\ local' = [local EXCEPT ![r] = Returned(@)]
    /\ pc' = [pc EXCEPT ![r] = "done"]
    /\ UNCHANGED <<env, req, response, step, calls, budget>>

\* ------------------------------------------------------------------ llm_stream

CreateCall(r) ==
    Call("create", <<AGENT_KEYS[step[r]], SystemPrompt(step[r]), UserPrompt(step[r], local[r])>>)

\* run_pipeline, resumed after the running event, enters llm_stream:
\* full_text = []; client.chat.completions.create(...) is called, and
\* llm_stream waits for it.
Create(r) ==
    /\ pc[r] = "create"
    /\ calls' = [calls EXCEPT ![r] = Append(@, CreateCall(r))]
    /\ local' = [local EXCEPT ![r].full_text = <<>>, ![r].chunk = <<>>]
    /\ pc' = [pc EXCEPT ![r] = "await_create"]
    /\ UNCHANGED <<env, req, response, step, stream, budget>>

\* stream = await ...: the call returns the stream, and llm_stream waits for
\* its first chunk.
CreateOk(r) ==
    /\ pc[r] = "await_create"
    /\ pc' = [pc EXCEPT ![r] = "stream"]
    /\ UNCHANGED <<env, req, response, step, local, stream, calls, budget>>

\* Mutant of CreateFail: a failure of create(...) is swallowed and the call is
\* made again.
CreateFailRetry(r, msg) ==
    /\ pc[r] = "await_create"
    /\ budget.fails > 0
    /\ budget' = [budget EXCEPT !.fails = @ - 1]
    /\ calls' = [calls EXCEPT ![r] = Append(@, CreateCall(r))]
    /\ UNCHANGED <<env, req, response, pc, step, local, stream>>

\* Mutant of CreateFail: create(...) is awaited before the try, so its failure
\* leaves llm_stream and ends run_pipeline with the exception.
CreateFailPropagates(r, msg) ==
    /\ pc[r] = "await_create"
    /\ budget.fails > 0
    /\ budget' = [budget EXCEPT !.fails = @ - 1]
    /\ pc' = [pc EXCEPT ![r] = "crashed"]
    /\ UNCHANGED <<env, req, response, step, local, stream, calls>>

\* await ... raises: except Exception as e: yield sse(error)
CreateFail(r, msg) ==
    /\ pc[r] = "await_create"
    /\ budget.fails > 0
    /\ budget' = [budget EXCEPT !.fails = @ - 1]
    /\ Relay(r, sse(ErrorEvent(AGENT_KEYS[step[r]], msg)), local[r], TRUE)
    /\ UNCHANGED <<env, req, response, calls>>

\* Mutant of NextChunk: the test is "if token is not None", so an empty text
\* is appended and sent as a token event too.
NextChunkUnfiltered(r, chunk) ==
    /\ pc[r] = "stream"
    /\ budget.chunks > 0
    /\ budget' = [budget EXCEPT !.chunks = @ - 1]
    /\ LET loc == [local[r] EXCEPT !.chunk = <<chunk>>]
       IN  IF chunk = <<>>
           THEN Relay(r, sse(ErrorEvent(AGENT_KEYS[step[r]], <<"list index out of range">>)),
                      loc, TRUE)
           ELSE LET token == chunk[1]
                IN  IF token # <<>>
                    THEN Relay(r, sse(TokenEvent(AGENT_KEYS[step[r]], token[1])),
                               [loc EXCEPT !.full_text = Append(@, token[1])], FALSE)
                    ELSE /\ local' = [local EXCEPT ![r] = loc]
                         /\ UNCHANGED <<pc, step, stream>>
    /\ UNCHANGED <<env, req, response, calls>>

\* async for chunk in stream: token = chunk.choices[0].delta.content; if token: ...
NextChunk(r, chunk) ==
    /\ pc[r] = "stream"
    /\ budget.chunks > 0
    /\ budget' = [budget EXCEPT !.chunks = @ - 1]
    /\ LET loc == [local[r] EXCEPT !.chunk = <<chunk>>]
       IN  IF chunk = <<>>
           THEN Relay(r, sse(ErrorEvent(AGENT_KEYS[step[r]], <<"list index out of range">>)),
                      loc, TRUE)
           ELSE LET token == chunk[1]
                IN  IF token # <<>> /\ token[1] # <<>>
                    THEN Relay(r, sse(TokenEvent(AGENT_KEYS[step[r]], token[1])),
                               [loc EXCEPT !.full_text = Append(@, token[1])], FALSE)
                    ELSE /\ local' = [local EXCEPT ![r] = loc]
                         /\ UNCHANGED <<pc, step, stream>>
    /\ UNCHANGED <<env, req, response, calls>>

\* Mutant of StreamEnd: the output is " ".join(full_text).
StreamEndSpaced(r) ==
    /\ pc[r] = "stream"
    /\ Relay(r, sse(DoneEvent(AGENT_KEYS[step[r]], JoinSep(<<SP>>, local[r].full_text))),
             local[r], TRUE)
    /\ UNCHANGED <<env, req, response, calls, budget>>

\* the stream ends: yield sse(done, output = "".join(full_text))
StreamEnd(r) ==
    /\ pc[r] = "stream"
    /\ Relay(r, sse(DoneEvent(AGENT_KEYS[step[r]], Join(local[r].full_text))),
             local[r], TRUE)
    /\ UNCHANGED <<env, req, response, calls, budget>>

\* Mutant of StreamFail: the failure is reported inside the loop and the
\* stream is read on, so the step goes on to its done event.
StreamFailContinue(r, msg) ==
    /\ pc[r] = "stream"
    /\ budget.fails > 0
    /\ budget' = [budget EXCEPT !.fails = @ - 1]
    /\ Relay(r, sse(ErrorEvent(AGENT_KEYS[step[r]], msg)), local[r], FALSE)
    /\ UNCHANGED <<env, req, response, calls>>

\* the stream raises: except Exception as e: yield sse(error)
StreamFail(r, msg) ==
    /\ pc[r] = "stream"
    /\ budget.fails > 0
    /\ budget' = [budget EXCEPT !.fails = @ - 1]
    /\ Relay(r, sse(ErrorEvent(AGENT_KEYS[step[r]], msg)), local[r], TRUE)
    /\ UNCHANGED <<env, req, response, calls>>

\* ------------------------------------------------------------------ the client

Streaming == {"extract_linkedin", "extract_resume", "get_client", "abort", "running",
              "create", "await_create", "stream", "terminator"}

\* The client goes away.  run_pipeline does not look at the connection, and
\* nothing in it changes: it goes on until the response ends it (Cancel, or
\* the chunk refused in Relay).
Disconnect(r) ==
    /\ pc[r] \in Streaming
    /\ response[r].connected
    /\ response' = [response EXCEPT ![r].connected = FALSE]
    /\ UNCHANGED <<env, req, pc, step, local, stream, calls, budget>>

\* Where the response can end the generator once the client has gone: before
\* its first step, where it waits for create(...) or for the next chunk of the
\* backend, and at a yield (the cancellation reaches it there while the chunk
\* before is sent, or the chunk it yields next is refused).
Cancellable == {"extract_linkedin", "abort", "running", "create", "await_create",
                "stream", "terminator"}

\* The StreamingResponse of run_outreach ends the generator of a client that
\* has gone.  The cancellation is no Exception: neither the clause of llm_stream
\* nor those of run_pipeline catch it, and there is no finally.  How soon this
\* happens is up to the server, so the step is possible and not forced.
Cancel(r) ==
    /\ ~response[r].connected
    /\ pc[r] \in Cancellable
    /\ pc' = [pc EXCEPT ![r] = "closed"]
    /\ UNCHANGED <<env, req, response, step, local, stream, calls, budget>>

\* ------------------------------------------------------------------ specification

\* One step of run_pipeline for request r, the backend's part included.
Step(r) ==
    \/ run_outreach(r)
    \/ ExtractLinkedin(r)
    \/ ExtractResume(r)
    \/ GetClient(r)
    \/ AbortYield(r)
    \/ YieldRunning(r)
    \/ Create(r)
    \/ CreateOk(r)
    \/ \E msg \in BackendErrors : CreateFail(r, msg)
    \/ \E chunk \in Chunks : NextChunk(r, chunk)
    \/ StreamEnd(r)
    \/ \E msg \in BackendErrors : StreamFail(r, msg)
    \/ YieldTerminator(r)

\* The clients keep reading.
Next == \E r \in Reqs : Step(r)

Spec == Init /\ [][Next]_vars

\* Two requests in flight at once, their steps interleaved.
PairRequests ==
    [linkedin_pdf : {BadB64, Pdf(<< <<"L1">> >>), Pdf(<< <<"L2">>, <<>> >>)},
     resume : {<<>>, <<"R", SP>>},
     resume_pdf : {NoDoc}]

\* Request 1 has one profile and no resume; request 2 has another document
\* and a resume text.  The credential is set or unset, never empty.
PairInit ==
    /\ InitWith(Reqs, PairRequests, [chunks |-> PairChunks, fails |-> PairFails])
    /\ env.pypdf /\ env.api_key # << <<>> >>
    /\ req[1] = [linkedin_pdf |-> Pdf(<< <<"L1">> >>), resume |-> <<>>, resume_pdf |-> NoDoc]
    /\ req[2].linkedin_pdf # req[1].linkedin_pdf
    /\ req[2].resume # req[1].resume

PairSpec == PairInit /\ [][Next]_vars

\* One request whose client may go away at any point of the stream.
ClientNext ==
    \/ Next
    \/ \E r \in Reqs : Disconnect(r)
    \/ \E r \in Reqs : Cancel(r)

ClientSpec == Init /\ [][ClientNext]_vars

\* The scheduler resumes a generator whose client keeps reading, and a backend
\* stream ends or fails after finitely many chunks.
LiveInit == InitWith({1}, Requests, [chunks |-> LiveChunks, fails |-> Len(AGENT_KEYS)])

LiveSpec == LiveInit /\ [][Next]_vars /\ \A r \in Reqs : WF_vars(Step(r))

\* ------------------------------------------------------------------ reading a stream

\* The chunks as the client parses them: [ok, items] of json.loads(chunk[6:]);
\* the terminator is no event and has no items.
RECURSIVE ParseAll(_)
ParseAll(chunks) ==
    IF chunks = <<>> THEN <<>>
    ELSE <<IF Head(chunks) = TERMINATOR THEN [ok |-> TRUE, items |-> <<>>]
           ELSE loads(DropData(Head(chunks)))>> \o ParseAll(Tail(chunks))

Events(r) == ParseAll(stream[r])

IsEvent(ev) == ev.items # <<>>

Field(ev, name) == Get(ev.items, S(name))

AgentOf(ev) == Field(ev, "agent")[1]
StatusOf(ev) == Field(ev, "status")[1]

\* Every chunk parses, and every chunk but the terminator has an agent and a
\* status.
WellFormed(r, evs) ==
    \A i \in 1..Len(evs) :
        /\ evs[i].ok
        /\ stream[r][i] # TERMINATOR =>
              HasKey(evs[i].items, S("agent")) /\ HasKey(evs[i].items, S("status"))

\* The events of key k among evs, in order.
KeyEvents(evs, k) ==
    LET OfKey(ev) == IsEvent(ev) /\ AgentOf(ev) = k
    IN  SelectSeq(evs, OfKey)

RECURSIVE Statuses(_)
Statuses(evs) ==
    IF evs = <<>> THEN <<>> ELSE <<StatusOf(Head(evs))>> \o Statuses(Tail(evs))

\* The token fields of the token events among evs, in order.
RECURSIVE Tokens(_)
Tokens(evs) ==
    IF evs = <<>> THEN <<>>
    ELSE IF StatusOf(Head(evs)) = "token"
         THEN <<Field(Head(evs), "token")>> \o Tokens(Tail(evs))
         ELSE Tokens(Tail(evs))

\* The index in AGENT_KEYS of the key of an event.
KeyIndex(ev) == CHOOSE i \in 1..Len(AGENT_KEYS) : AGENT_KEYS[i] = AgentOf(ev)

Terminators(r) == {i \in 1..Len(stream[r]) : stream[r][i] = TERMINATOR}

Aborted(r) == local[r].e # <<>>

Over(r) == pc[r] \in {"absent", "rejected", "closed", "done"}

Created(r) == {i \in 1..Len(calls[r]) : calls[r][i].fn = "create"}

\* The calls to the backend, in order.
Creates(r) == LET IsCreate(c) == c.fn = "create" IN SelectSeq(calls[r], IsCreate)

\* Request r has called the collaborator fn.
Called(r, fn) == \E i \in 1..Len(calls[r]) : calls[r][i].fn = fn

\* ------------------------------------------------------------------ claims

\* C1: a stream holds at most one terminator, nothing follows it, a run that
\* has ended by itself has emitted it, and a run whose client is still there
\* and that has not emitted it always has a next step (it never raises).
C1_OneTerminatorLast ==
    \A r \in Reqs :
        /\ WellFormed(r, Events(r))
        /\ Cardinality(Terminators(r)) <= 1
        /\ \A i \in Terminators(r) : i = Len(stream[r])
        /\ (pc[r] = "done") <=> (Terminators(r) # {})
        /\ ~Over(r) => ENABLED Step(r)

\* A finished run in which one step failed and another completed with tokens.
C1_Witness ==
    /\ pc[1] = "done"
    /\ LET evs == Events(1)
       IN  \E i, j, k \in 1..(Len(evs) - 1) :
              /\ StatusOf(evs[i]) = "error"
              /\ StatusOf(evs[j]) = "done"
              /\ StatusOf(evs[k]) = "token"

\* C2: every request whose client keeps reading is eventually finished, its
\* terminator emitted.
C2_EventuallyTerminated ==
    \A r \in Reqs :
        <>(\/ pc[r] \in {"absent", "rejected", "closed"}
           \/ pc[r] = "done" /\ stream[r][Len(stream[r])] = TERMINATOR)

\* A run finished after all four steps failed.
C2_Witness ==
    /\ pc[1] = "done"
    /\ Len(stream[1]) = 9
    /\ \A k \in 1..4 : StatusOf(Events(1)[2 * k]) = "error"

\* The statuses of one step that ran: running, tokens, then done or error.
Complete(sub) ==
    /\ Len(sub) >= 2
    /\ sub[1] = "running"
    /\ sub[Len(sub)] \in {"done", "error"}
    /\ \A i \in 2..(Len(sub) - 1) : sub[i] = "token"

\* A prefix of such a sequence.
Started(sub) ==
    \/ sub = <<>>
    \/ /\ sub[1] = "running"
       /\ \A i \in 2..Len(sub) :
             sub[i] = "token" \/ (i = Len(sub) /\ sub[i] \in {"done", "error"})

\* C3 as stated: in every finished run each key has one running event, then
\* tokens, then one done or error event.
C3_Original ==
    \A r \in Reqs :
        pc[r] = "done" =>
            LET evs == Events(r)
            IN  \A i \in 1..Len(AGENT_KEYS) :
                   Complete(Statuses(KeyEvents(evs, AGENT_KEYS[i])))

\* C3, amended: a run that passed extraction and credential lookup has, for each
\* key, one running event, then tokens, then one done or error event and nothing
\* after it; an aborted run has, for each key, exactly one event, an error.
C3_PerKeyProtocol ==
    \A r \in Reqs :
        LET evs == Events(r)
        IN  \A i \in 1..Len(AGENT_KEYS) :
               LET sub == Statuses(KeyEvents(evs, AGENT_KEYS[i]))
               IN  IF Aborted(r)
                   THEN /\ sub \in {<<>>, <<"error">>}
                        /\ pc[r] = "done" => sub = <<"error">>
                   ELSE /\ Started(sub)
                        /\ pc[r] = "done" => Complete(sub)

\* A finished run with a step of two tokens and a done event, and a step that
\* failed.
C3_Witness ==
    /\ pc[1] = "done"
    /\ ~Aborted(1)
    /\ LET evs == Events(1)
       IN  \E i, j \in 1..Len(AGENT_KEYS) :
              /\ Statuses(KeyEvents(evs, AGENT_KEYS[i]))
                    = <<"running", "token", "token", "done">>
              /\ Statuses(KeyEvents(evs, AGENT_KEYS[j])) = <<"running", "error">>

\* The stream of an aborted run so far: error events for the keys in order, all
\* with the message msg, then the terminator.
AbortStream(r, msg) ==
    LET evs == Events(r)
    IN  /\ Len(evs) <= Len(AGENT_KEYS) + 1
        /\ \A i \in 1..Len(evs) :
              IF i <= Len(AGENT_KEYS)
              THEN evs[i].ok /\ evs[i].items = ErrorEvent(AGENT_KEYS[i], msg)
              ELSE stream[r][i] = TERMINATOR
        /\ pc[r] = "done" => Len(evs) = Len(AGENT_KEYS) + 1

PrimaryFails(r) == extract_pdf_text(req[r].linkedin_pdf, env).raised

ResumeFails(r) ==
    /\ ~PrimaryFails(r)
    /\ req[r].resume_pdf # NoDoc
    /\ extract_pdf_text(req[r].resume_pdf, env).raised

NoCredential == env.api_key = <<>> \/ env.api_key = << <<>> >>

CredentialFails(r) == ~PrimaryFails(r) /\ ~ResumeFails(r) /\ NoCredential

\* C4: once the primary document has failed to extract, the stream is four error
\* events, one a key, with the failure message behind "LinkedIn PDF: ", then
\* the terminator; the only collaborator called is that extraction.
C4_PrimaryFailure ==
    \A r \in Reqs :
        (Called(r, "extract_pdf_text") /\ PrimaryFails(r)) =>
            /\ AbortStream(r, <<"LinkedIn PDF: ">>
                              \o extract_pdf_text(req[r].linkedin_pdf, env).value)
            /\ calls[r] = <<Call("extract_pdf_text", <<req[r].linkedin_pdf>>)>>
            /\ local[r].resume = req[r].resume
            /\ local[r].client = <<>>

\* A finished run whose primary document has no text, with a resume document
\* that would not extract and no credential.
C4_Witness ==
    /\ pc[1] = "done"
    /\ req[1].linkedin_pdf = Pdf(<< <<SP>> >>)
    /\ req[1].resume_pdf = NotPdf
    /\ env.api_key = <<>>
    /\ env.pypdf

\* C5: once the primary document has extracted and the resume document has
\* not, the stream is four error events with the failure message behind
\* "Resume PDF: ", then the terminator; no client is made, no resume block is
\* built and the backend is not called, whatever the resume text.
C5_ResumeFailure ==
    \A r \in Reqs :
        (Len(calls[r]) >= 2 /\ ResumeFails(r)) =>
            /\ AbortStream(r, <<"Resume PDF: ">>
                              \o extract_pdf_text(req[r].resume_pdf, env).value)
            /\ calls[r] = <<Call("extract_pdf_text", <<req[r].linkedin_pdf>>),
                            Call("extract_pdf_text", <<req[r].resume_pdf>>)>>
            /\ local[r].resume_block = <<>>

\* A finished run whose resume document did not extract, with a resume text.
C5_Witness ==
    /\ pc[1] = "done"
    /\ ResumeFails(1)
    /\ Strip(req[1].resume) # <<>>
    /\ ~NoCredential

\* C6: once get_client has found no credential (the variable unset or empty),
\* the documents extracted, the stream is four error events with the message
\* of get_client, unprefixed, then the terminator, and the backend is not called.
C6_NoCredential ==
    \A r \in Reqs :
        (Called(r, "get_client") /\ CredentialFails(r)) =>
            /\ AbortStream(r, <<"OPENAI_API_KEY is not set.">>)
            /\ Created(r) = {}
            /\ calls[r][Len(calls[r])] = Call("get_client", <<>>)

\* A finished run with an empty credential and both documents extracted.
C6_Witness ==
    /\ pc[1] = "done"
    /\ env.api_key = << <<>> >>
    /\ req[1].resume_pdf # NoDoc
    /\ Len(calls[1]) = 3

\* C7: the output of a done event is the token fields of the token events of
\* its key, joined in the order of the stream.
C7_DoneIsJoinedTokens ==
    \A r \in Reqs :
        LET evs == Events(r)
        IN  \A j \in 1..Len(evs) :
               (IsEvent(evs[j]) /\ StatusOf(evs[j]) = "done") =>
                   Field(evs[j], "output") = Join(Tokens(KeyEvents(evs, AgentOf(evs[j]))))

\* A done event after two different tokens, and a done event after none.
C7_Witness ==
    LET evs == Events(1)
    IN  \E i, j \in 1..Len(evs) :
           /\ IsEvent(evs[i]) /\ StatusOf(evs[i]) = "done"
           /\ Field(evs[i], "output") = <<"a">> \o STATUS_TOKEN
           /\ IsEvent(evs[j]) /\ StatusOf(evs[j]) = "done"
           /\ Field(evs[j], "output") = <<>>

\* C8: in a run that passed extraction and credential lookup the keys of the
\* events follow the order of AGENT_KEYS and are never interleaved; a running
\* event is the first event or comes right after the done or error event of
\* the step before; the backend calls are made in the order of AGENT_KEYS, the
\* call of a step after the running event of that step and after the done or
\* error events of all steps before.
C8_StepsInOrder ==
    \A r \in Reqs :
        ~Aborted(r) =>
            LET evs == Events(r)
                n == Len(evs) - Cardinality(Terminators(r))
                made == Creates(r)
                Ended(i) == StatusOf(evs[i]) \in {"done", "error"}
            IN  /\ \A i, j \in 1..n : i < j => KeyIndex(evs[i]) <= KeyIndex(evs[j])
                /\ \A j \in 1..n :
                      StatusOf(evs[j]) = "running" =>
                          IF j = 1 THEN KeyIndex(evs[j]) = 1
                          ELSE Ended(j - 1) /\ KeyIndex(evs[j]) = KeyIndex(evs[j - 1]) + 1
                /\ \A c \in 1..Len(made) :
                      /\ made[c].arg[1] = AGENT_KEYS[c]
                      /\ \E j \in 1..n : StatusOf(evs[j]) = "running" /\ KeyIndex(evs[j]) = c
                      /\ \A b \in 1..(c - 1) : \E j \in 1..n : Ended(j) /\ KeyIndex(evs[j]) = b

\* Step 4 is streaming after three steps that ended, one of them with tokens.
C8_Witness ==
    /\ pc[1] = "stream"
    /\ step[1] = 4
    /\ Len(Creates(1)) = 4
    /\ \E j \in 1..Len(stream[1]) : StatusOf(Events(1)[j]) = "token"

\* A backend failure of request r: create or the stream raises.
BackendFails(r) ==
    /\ pc[r] \in {"await_create", "stream"}
    /\ budget'.fails < budget.fails
    /\ <<pc[r], stream[r], calls[r]>> # <<pc'[r], stream'[r], calls'[r]>>

\* A finished run that passed extraction and credential lookup: every step has
\* run and has called the backend, and the terminator is there.
AllStepsRan(r) ==
    (pc[r] = "done" /\ ~Aborted(r)) =>
        LET evs == Events(r)
        IN  /\ \A i \in 1..Len(AGENT_KEYS) :
                  Complete(Statuses(KeyEvents(evs, AGENT_KEYS[i])))
            /\ Len(Creates(r)) = Len(AGENT_KEYS)
            /\ \A c \in 1..Len(AGENT_KEYS) : Creates(r)[c].arg[1] = AGENT_KEYS[c]
            /\ stream[r][Len(stream[r])] = TERMINATOR

\* C9: a backend failure in a step adds one chunk to the stream, the error
\* event of that step's key with the failure message, and the run goes on to
\* the running event of the next step (to the terminator after step 4); a
\* finished run has run every step, whichever of them failed.
C9_FailureStaysInStep ==
    /\ [][\A r \in Reqs :
             BackendFails(r) =>
                 /\ Len(stream'[r]) = Len(stream[r]) + 1
                 /\ SubSeq(stream'[r], 1, Len(stream[r])) = stream[r]
                 /\ LET d == loads(DropData(stream'[r][Len(stream'[r])]))
                    IN  /\ d.ok
                        /\ \E msg \in BackendErrors :
                              d.items = ErrorEvent(AGENT_KEYS[step[r]], msg)
                 /\ IF step[r] < Len(AGENT_KEYS)
                    THEN pc'[r] = "running" /\ step'[r] = step[r] + 1
                    ELSE pc'[r] = "terminator"]_vars
    /\ [](\A r \in Reqs : AllStepsRan(r))

\* A finished run: step 1 failed at create, a later step failed after a token,
\* another step completed.
C9_Witness ==
    /\ pc[1] = "done"
    /\ ~Aborted(1)
    /\ LET evs == Events(1)
       IN  /\ Statuses(KeyEvents(evs, AGENT_KEYS[1])) = <<"running", "error">>
           /\ \E i, j \in 2..Len(AGENT_KEYS) :
                 /\ Statuses(KeyEvents(evs, AGENT_KEYS[i])) = <<"running", "token", "error">>
                 /\ Statuses(KeyEvents(evs, AGENT_KEYS[j])) = <<"running", "done">>

\* The user prompt of the backend call of step i, once made.
PromptSent(r, i) == Len(Creates(r)) >= i
Prompt(r, i) == Creates(r)[i].arg[3]

\* The result of step 1 as streamed: its token fields, joined.
Step1Result(r) == Join(Tokens(KeyEvents(Events(r), AGENT_KEYS[1])))

\* The atoms of the documents and resume texts of the requests.
RawAtoms == {"L1", "L2", "R", "Q1", "Q2"}

\* C10: two runs whose step 1 streamed the same result send the same prompt
\* in step 2, whatever their documents and resume texts; and no atom of a
\* document or a resume text is in a step 2 prompt.
C10_Step2PromptFromStep1Only ==
    /\ \A r1, r2 \in Reqs :
          (r1 < r2 /\ PromptSent(r1, 2) /\ PromptSent(r2, 2)
             /\ Step1Result(r1) = Step1Result(r2))
              => Prompt(r1, 2) = Prompt(r2, 2)
    /\ \A r \in Reqs :
          PromptSent(r, 2) =>
              \A i \in 1..Len(Prompt(r, 2)) : Prompt(r, 2)[i] \notin RawAtoms

\* Two runs with different profile texts and different resume blocks have sent
\* their step 2 prompts after the same step 1 result.
C10_Witness ==
    /\ PromptSent(1, 2) /\ PromptSent(2, 2)
    /\ local[1].linkedin_text # local[2].linkedin_text
    /\ local[1].resume_block # local[2].resume_block
    /\ Step1Result(1) = Step1Result(2)
    /\ Prompt(1, 1) # Prompt(2, 1)

\* The primary document field of request r is missing or empty.
NoPrimary(r) == req[r].linkedin_pdf \in {Missing, NoDoc}

\* C11: a request whose linkedin_pdf is missing or empty is answered with a
\* client-error status (4xx) and nothing else happens for it: no chunk is
\* written, no document is extracted, no client is made and the backend is not
\* called; every other request gets the streamed response.
C11_RejectedBeforeStreaming ==
    \A r \in Reqs :
        pc[r] \notin {"absent", "received"} =>
            IF NoPrimary(r)
            THEN /\ response[r].status \in 400..499
                 /\ pc[r] = "rejected"
                 /\ stream[r] = <<>>
                 /\ calls[r] = <<>>
                 /\ local[r] = Locals(req[r].resume)
                 /\ ~ENABLED Step(r)
            ELSE response[r].status = 200

\* A rejected request with an empty linkedin_pdf that has a resume document
\* which extracts, in a process with a credential.
C11_Witness ==
    /\ pc[1] = "rejected"
    /\ req[1].linkedin_pdf = NoDoc
    /\ response[1] = Response(400, <<"linkedin_pdf is required.">>)
    /\ req[1].resume_pdf \notin {NoDoc, NotPdf}
    /\ env.pypdf /\ ~NoCredential

\* The instructions of the four steps, in the order of the steps.
Instructions == <<"SYS_SUMMARIZER", "SYS_RESEARCHER", "SYS_EVALUATOR", "SYS_STRATEGIST">>

\* Request r makes a call to the backend in this step.
CallsBackend(r) ==
    /\ Len(calls'[r]) = Len(calls[r]) + 1
    /\ calls'[r][Len(calls'[r])].fn = "create"

\* The agent and status of the events that are no token events, in order.
RECURSIVE Skeleton(_)
Skeleton(evs) ==
    IF evs = <<>> THEN <<>>
    ELSE IF IsEvent(Head(evs)) /\ StatusOf(Head(evs)) # "token"
         THEN <<AgentOf(Head(evs)), StatusOf(Head(evs))>> \o Skeleton(Tail(evs))
         ELSE Skeleton(Tail(evs))

\* No step of r has ended with an error event.
NoStepFailed(evs) ==
    \A j \in 1..Len(evs) : IsEvent(evs[j]) => StatusOf(evs[j]) # "error"

\* A finished run in which extraction and credential lookup succeeded and no
\* step failed: four calls with the instructions in order, and the stream is
\* running, tokens, done for each key in order, then the terminator.
HappyRun(r) ==
    LET evs == Events(r)
    IN  (pc[r] = "done" /\ ~Aborted(r) /\ NoStepFailed(evs)) =>
            /\ Len(Creates(r)) = Len(AGENT_KEYS)
            /\ \A c \in 1..Len(AGENT_KEYS) :
                  /\ Creates(r)[c].arg[1] = AGENT_KEYS[c]
                  /\ Creates(r)[c].arg[2] = S(Instructions[c])
                  /\ Complete(Statuses(KeyEvents(evs, AGENT_KEYS[c])))
            /\ Skeleton(evs) =
                  <<"profile_summary", "running", "profile_summary", "done",
                    "deep_research", "running", "deep_research", "done",
                    "fitness_eval", "running", "fitness_eval", "done",
                    "strategy", "running", "strategy", "done">>
            /\ stream[r][Len(stream[r])] = TERMINATOR
            /\ Terminators(r) = {Len(stream[r])}

\* C12: every call to the backend comes right after the running event of the
\* key it is made for (that event is the last chunk written, and the call
\* writes none); and a finished run that passed extraction and credential
\* lookup and in which no step failed has called the backend four times, with
\* the instructions of the summary, the research, the evaluation and the
\* strategy in this order, each step streaming running, tokens, done, and the
\* terminator last.
C12_HappyPath ==
    /\ [][\A r \in Reqs :
             CallsBackend(r) =>
                 /\ stream[r] # <<>>
                 /\ stream'[r] = stream[r]
                 /\ LET d == loads(DropData(stream[r][Len(stream[r])]))
                        made == calls'[r][Len(calls'[r])]
                    IN  /\ d.ok
                        /\ d.items = RunningEvent(made.arg[1])
                        /\ made.arg[1] = AGENT_KEYS[step[r]]
                        /\ made.arg[2] = S(Instructions[step[r]])]_vars
    /\ [](\A r \in Reqs : HappyRun(r))

\* A finished run without a failure that streamed two tokens.
C12_Witness ==
    /\ pc[1] = "done"
    /\ ~Aborted(1)
    /\ NoStepFailed(Events(1))
    /\ Len(Creates(1)) = Len(AGENT_KEYS)
    /\ Len(stream[1]) = 2 * Len(AGENT_KEYS) + 3

\* Everything the model holds for request o.
Own(o) == <<pc[o], step[o], local[o], stream[o], calls[o], response[o]>>

\* The locals of run_pipeline as they follow from the body of request r and
\* the token fields toks of the token events of its own stream, key by key.
OwnLocals(r, toks) ==
    LET resume == IF req[r].resume_pdf # NoDoc
                  THEN extract_pdf_text(req[r].resume_pdf, env).value
                  ELSE req[r].resume
    IN  [Locals(resume) EXCEPT
            !.linkedin_text = extract_pdf_text(req[r].linkedin_pdf, env).value,
            !.resume_block = ResumeBlock(resume),
            !.profile_summary = toks[1],
            !.deep_research = toks[2],
            !.fitness_eval = toks[3]]

\* The stream of r follows the protocol of a single request, the captured
\* results of r are the tokens of its own stream, and every prompt r has sent
\* is built from its own body and its own stream.
Isolated(r) ==
    LET evs == Events(r)
        subs == <<KeyEvents(evs, AGENT_KEYS[1]), KeyEvents(evs, AGENT_KEYS[2]),
                  KeyEvents(evs, AGENT_KEYS[3]), KeyEvents(evs, AGENT_KEYS[4])>>
        toks == <<Tokens(subs[1]), Tokens(subs[2]), Tokens(subs[3]), Tokens(subs[4])>>
        own == OwnLocals(r, toks)
        made == Creates(r)
    IN  /\ WellFormed(r, evs)
        /\ Cardinality(Terminators(r)) <= 1
        /\ \A i \in Terminators(r) : i = Len(stream[r])
        /\ (pc[r] = "done") <=> (Terminators(r) # {})
        /\ \A i \in 1..Len(AGENT_KEYS) :
              LET sub == subs[i]
                  st == Statuses(sub)
              IN  /\ IF Aborted(r) THEN st \in {<<>>, <<"error">>} ELSE Started(st)
                  /\ pc[r] = "done" =>
                        IF Aborted(r) THEN st = <<"error">> ELSE Complete(st)
                  /\ (st # <<>> /\ st[Len(st)] = "done") =>
                        Field(sub[Len(sub)], "output") = Join(toks[i])
        /\ local[r].profile_summary = own.profile_summary
        /\ local[r].deep_research = own.deep_research
        /\ local[r].fitness_eval = own.fitness_eval
        /\ \A c \in 1..Len(made) : made[c].arg[3] = UserPrompt(c, own)

\* C13: with two requests in flight, their steps interleaved in any order, a
\* step changes the stream, the locals, the calls and the position of one
\* request only; and each request's stream follows the single-request protocol,
\* its captured results are the tokens of its own stream and its prompts are
\* built from its own documents, resume and stream.
C13_RequestsIsolated ==
    /\ [][\E r \in Reqs : \A o \in Reqs \ {r} : Own(o)' = Own(o)]_vars
    /\ [](\A r \in Reqs : Isolated(r))

\* Both requests are in flight, request 1 streaming step 3 and request 2
\* streaming step 2, one of them with a token in step 1 and the other without.
C13_Witness ==
    /\ pc[1] = "stream" /\ step[1] = 3
    /\ pc[2] = "stream" /\ step[2] = 2
    /\ Step1Result(1) # Step1Result(2)
    /\ Prompt(1, 2) # Prompt(2, 2)

\* The backend stream of request r delivers a chunk in this step.
Delivers(r) ==
    /\ pc[r] = "stream"
    /\ budget'.chunks < budget.chunks
    /\ Own(r)' # Own(r)

\* The chunk llm_stream of r holds carries a text (a str, empty or not).
HoldsText(loc) == loc.chunk # <<>> /\ loc.chunk[1] # <<>> /\ loc.chunk[1][1] # <<>>

\* The step adds to the stream of r one chunk, the event ev.
Emits(r, ev) ==
    /\ Len(stream'[r]) = Len(stream[r]) + 1
    /\ SubSeq(stream'[r], 1, Len(stream[r])) = stream[r]
    /\ LET d == loads(DropData(stream'[r][Len(stream'[r])]))
       IN  d.ok /\ d.items = ev

\* C14 as stated: every fragment the backend stream delivers, an empty text
\* included, adds exactly one token event carrying it to the stream.
C14_Original ==
    [][\A r \in Reqs :
          (Delivers(r) /\ HoldsText(local'[r])) =>
              Emits(r, TokenEvent(AGENT_KEYS[step[r]], local'[r].chunk[1][1][1]))]_vars

\* C14, amended: a chunk that carries a text that is not empty adds exactly one
\* token event carrying that text to the stream and the text to full_text; a
\* chunk whose text is empty or None adds nothing to either; and while a step
\* streams, the token events of its key are the texts in full_text, in order.
C14_TokenPerFragment ==
    /\ [][\A r \in Reqs :
             (Delivers(r) /\ local'[r].chunk # <<>> /\ local'[r].chunk[1] # <<>>) =>
                 LET content == local'[r].chunk[1][1]
                 IN  IF content # <<>> /\ content[1] # <<>>
                     THEN /\ Emits(r, TokenEvent(AGENT_KEYS[step[r]], content[1]))
                          /\ local'[r].full_text = Append(local[r].full_text, content[1])
                          /\ pc'[r] = "stream"
                     ELSE /\ stream'[r] = stream[r]
                          /\ local'[r].full_text = local[r].full_text
                          /\ pc'[r] = "stream"]_vars
    /\ [](\A r \in Reqs :
             pc[r] = "stream" =>
                 Tokens(KeyEvents(Events(r), AGENT_KEYS[step[r]])) = local[r].full_text)

\* A step has streamed the token event of a text and then received an empty
\* text, which added no event.
C14_Witness ==
    /\ pc[1] = "stream"
    /\ local[1].chunk = << << << <<>> >> >> >>
    /\ local[1].full_text = <<STATUS_TOKEN>>
    /\ Tokens(KeyEvents(Events(1), AGENT_KEYS[step[1]])) = <<STATUS_TOKEN>>
    /\ budget.chunks = MaxChunks - 2

\* The messages of the failures llm_stream can meet: those of the backend, and
\* that of a chunk without choices.
StepErrors == BackendErrors \cup { <<"list index out of range">> }

\* The events of one key in a run that passed extraction and credential
\* lookup: if there is an error event it is the only one, it is the last event
\* of the key, there is no done event, and the token events before it are
\* still there.
FailedOnce(sub) ==
    \A j \in 1..Len(sub) :
        StatusOf(sub[j]) = "error" =>
            /\ j = Len(sub)
            /\ Field(sub[j], "error") \in StepErrors
            /\ StatusOf(sub[1]) = "running"
            /\ \A i \in 2..(j - 1) : StatusOf(sub[i]) = "token"

\* C15: a backend failure in a step, at create or while the stream is read,
\* adds exactly one chunk to the stream, the error event of the step's key with
\* the failure message, after the events already written, and run_pipeline
\* goes on (the failure does not reach it); the error event of a key is its
\* last event, the only error event of the key, with no done event and with
\* the token events before it left in place.
C15_OneErrorNoDone ==
    /\ [][\A r \in Reqs :
             BackendFails(r) =>
                 /\ \E msg \in BackendErrors : Emits(r, ErrorEvent(AGENT_KEYS[step[r]], msg))
                 /\ pc'[r] \in {"running", "terminator"}]_vars
    /\ [](\A r \in Reqs :
             /\ pc[r] # "crashed"
             /\ ~Aborted(r) =>
                   LET evs == Events(r)
                   IN  \A i \in 1..Len(AGENT_KEYS) : FailedOnce(KeyEvents(evs, AGENT_KEYS[i])))

\* Step 1 failed at create and step 2 failed after a token: the run is about
\* to start step 3.
C15_Witness ==
    /\ pc[1] = "running" /\ step[1] = 3
    /\ LET evs == Events(1)
       IN  /\ Statuses(KeyEvents(evs, AGENT_KEYS[1])) = <<"running", "error">>
           /\ Statuses(KeyEvents(evs, AGENT_KEYS[2])) = <<"running", "token", "error">>
           /\ Field(evs[Len(evs)], "error") \in BackendErrors

\* The resume block the claim describes for request r: the text of the resume
\* document if one is supplied, else the resume text; under the heading if
\* something is left of it after trimming, else the placeholder.
ExpectedBlock(r) ==
    LET text == IF req[r].resume_pdf # NoDoc
                THEN extract_pdf_text(req[r].resume_pdf, env).value
                ELSE req[r].resume
    IN  IF \E i \in 1..Len(text) : ~IsSpace(text[i])
        THEN <<"CANDIDATE RESUME:\n">> \o text
        ELSE <<"No resume provided - evaluate generally.">>

\* In prompt the block stands right after the first atom and right before the
\* atom next.
BlockAt(prompt, block, next) ==
    /\ Len(prompt) >= Len(block) + 2
    /\ SubSeq(prompt, 2, Len(block) + 1) = block
    /\ prompt[Len(block) + 2] = next

\* C16: the prompts of steps 3 and 4 carry the same resume block, the one made
\* of the text of the resume document if one was supplied (it extracted, or the
\* run would have been aborted) and of the resume text otherwise: that text as
\* it is under the heading if it is not empty after trimming, else the
\* placeholder.
C16_ResumeBlock ==
    \A r \in Reqs :
        /\ PromptSent(r, 3) =>
              BlockAt(Prompt(r, 3), ExpectedBlock(r), "\n\nHR MANAGER PROFILE:\n")
        /\ PromptSent(r, 4) =>
              BlockAt(Prompt(r, 4), ExpectedBlock(r),
                      "\n\n--- HR MANAGER PROFILE (the RECIPIENT) ---\n")

\* Step 4 has been called for a request with a resume text and a resume
\* document of two pages: the block is the text of the document.
C16_Witness ==
    /\ PromptSent(1, 4)
    /\ req[1].resume = <<"R", SP>>
    /\ req[1].resume_pdf = Pdf(<< <<"Q1">>, <<SP, "Q2">> >>)
    /\ ExpectedBlock(1) = <<"CANDIDATE RESUME:\n", "Q1", NL2, SP, "Q2">>

\* From index i on, prompt is the first label, the first result, the second
\* label, the second result and so on, and then one last atom.
RECURSIVE Follows(_, _, _, _)
Follows(prompt, i, labels, results) ==
    IF labels = <<>> THEN i = Len(prompt)
    ELSE LET n == Len(Head(results))
         IN  /\ i + n < Len(prompt)
             /\ prompt[i] = Head(labels)
             /\ SubSeq(prompt, i + 1, i + n) = Head(results)
             /\ Follows(prompt, i + n + 1, Tail(labels), Tail(results))

\* The result of the step of key k as the stream evs shows it: the token fields
\* of the key, joined.
Streamed(evs, k) == Join(Tokens(KeyEvents(evs, k)))

\* prompt, sent for step c, embeds the results of the steps before c as evs
\* shows them.
Embeds(prompt, c, evs) ==
    LET r1 == Streamed(evs, AGENT_KEYS[1])
        r2 == Streamed(evs, AGENT_KEYS[2])
        r3 == Streamed(evs, AGENT_KEYS[3])
        At(label) == CHOOSE i \in 1..Len(prompt) : prompt[i] = label
        Has(label) == \E i \in 1..Len(prompt) : prompt[i] = label
    IN  CASE c = 1 -> TRUE
          [] c = 2 -> Len(prompt) = Len(r1) + 2 /\ SubSeq(prompt, 2, Len(r1) + 1) = r1
          [] c = 3 ->
               /\ Has("\n\nHR MANAGER PROFILE:\n")
               /\ Follows(prompt, At("\n\nHR MANAGER PROFILE:\n"),
                          <<"\n\nHR MANAGER PROFILE:\n", "\n\nCOMPANY RESEARCH:\n">>,
                          <<r1, r2>>)
          [] OTHER ->
               /\ Has("\n\n--- HR MANAGER PROFILE (the RECIPIENT) ---\n")
               /\ Follows(prompt, At("\n\n--- HR MANAGER PROFILE (the RECIPIENT) ---\n"),
                          <<"\n\n--- HR MANAGER PROFILE (the RECIPIENT) ---\n",
                            "\n\n--- COMPANY RESEARCH ---\n",
                            "\n\n--- FITNESS EVALUATION ---\n">>,
                          <<r1, r2, r3>>)

\* The events of a key that has ended: with a done event the joined tokens are
\* its output.
ResultIsOutput(evs, k) ==
    LET sub == KeyEvents(evs, k)
    IN  (sub # <<>> /\ StatusOf(sub[Len(sub)]) = "done") =>
            Streamed(evs, k) = Field(sub[Len(sub)], "output")

\* C17: when the backend is called for a step, the prompt embeds, in the
\* places of the results of the steps before, the token values streamed for
\* those steps, joined in order: the output of the done event of a step that
\* completed, and what was streamed before the error event of a step that
\* failed; step 2 embeds the result of step 1, step 3 those of steps 1 and 2,
\* step 4 those of steps 1, 2 and 3.
C17_EmbeddedResults ==
    [][\A r \in Reqs :
          CallsBackend(r) =>
              LET evs == Events(r)
              IN  /\ Embeds(calls'[r][Len(calls'[r])].arg[3], step[r], evs)
                  /\ \A n \in 1..(step[r] - 1) : ResultIsOutput(evs, AGENT_KEYS[n])
                  /\ Join(local[r].profile_summary) = Streamed(evs, AGENT_KEYS[1])
                  /\ Join(local[r].deep_research) = Streamed(evs, AGENT_KEYS[2])
                  /\ Join(local[r].fitness_eval) = Streamed(evs, AGENT_KEYS[3])]_vars

\* Step 4 has been called after step 1 failed with a token streamed and step 2
\* completed with a token.
C17_Witness ==
    /\ Len(Creates(1)) = Len(AGENT_KEYS)
    /\ LET evs == Events(1)
       IN  /\ Statuses(KeyEvents(evs, AGENT_KEYS[1])) = <<"running", "token", "error">>
           /\ Statuses(KeyEvents(evs, AGENT_KEYS[2])) = <<"running", "token", "done">>
           /\ Streamed(evs, AGENT_KEYS[1]) # Streamed(evs, AGENT_KEYS[2])

\* C18: a request calls the backend at most once for each key, so at most four
\* times; a finished run that passed extraction and credential lookup has
\* called it exactly four times, whatever failed, and an aborted run never
\* calls it.
C18_NoRetries ==
    \A r \in Reqs :
        LET made == Creates(r)
        IN  /\ Len(made) <= Len(AGENT_KEYS)
            /\ \A i, j \in 1..Len(made) : i < j => made[i].arg[1] # made[j].arg[1]
            /\ \A i \in 1..Len(made) : made[i].arg[1] = AGENT_KEYS[i]
            /\ (pc[r] = "done" /\ ~Aborted(r)) => Len(made) = Len(AGENT_KEYS)
            /\ Aborted(r) => made = <<>>

\* A finished run in which the backend failed in all four steps, in one of
\* them after it had delivered a chunk: four calls.
C18_Witness ==
    /\ pc[1] = "done"
    /\ ~Aborted(1)
    /\ budget.fails = 0
    /\ budget.chunks < MaxChunks
    /\ Len(Creates(1)) = Len(AGENT_KEYS)

\* C19 as stated: once the client of a request has gone, no step writes a
\* chunk to the stream of the request, takes a chunk from the backend or makes a
\* call to the backend.
C19_NothingAfterDisconnect ==
    [][\A r \in Reqs :
          ~response[r].connected =>
              /\ stream'[r] = stream[r]
              /\ LET IsCreate(c) == c.fn = "create"
                 IN  SelectSeq(calls'[r], IsCreate) = Creates(r)
              /\ budget'.chunks = budget.chunks]_vars

\* The checks of run_pipeline in their order, for the body of r: the call of
\* each check and the message it fails with, <<>> if it passes.
Checks(r) ==
    LET primary == extract_pdf_text(req[r].linkedin_pdf, env)
        second == extract_pdf_text(req[r].resume_pdf, env)
    IN  <<[call |-> Call("extract_pdf_text", <<req[r].linkedin_pdf>>),
           fails |-> IF primary.raised THEN <<"LinkedIn PDF: ">> \o primary.value ELSE <<>>]>>
        \o (IF req[r].resume_pdf = NoDoc THEN <<>>
            ELSE <<[call |-> Call("extract_pdf_text", <<req[r].resume_pdf>>),
                    fails |-> IF second.raised THEN <<"Resume PDF: ">> \o second.value
                              ELSE <<>>]>>)
        \o <<[call |-> Call("get_client", <<>>),
              fails |-> IF NoCredential THEN <<"OPENAI_API_KEY is not set.">> ELSE <<>>]>>

\* The indexes of the checks that fail.
Failing(r) == {i \in 1..Len(Checks(r)) : Checks(r)[i].fails # <<>>}

\* The number of error events among evs.
ErrorCount(evs) ==
    Cardinality({j \in 1..Len(evs) : IsEvent(evs[j]) /\ StatusOf(evs[j]) = "error"})

\* C20: the checks are made in the order primary document, resume document,
\* credential, and none is made after one that failed; a run is aborted
\* exactly when one of its checks has failed, and its stream is then the four
\* error events, one for each key in the order of the keys, all with the
\* message of the first failing check, and the terminator: four error events
\* in all, whatever else would have failed.
C20_FirstFailureOnly ==
    \A r \in Reqs :
        LET checks == Checks(r)
            made == Len(calls[r]) - Len(Creates(r))
            first == CHOOSE i \in Failing(r) : \A j \in Failing(r) : i <= j
        IN  /\ made <= Len(checks)
            /\ \A i \in 1..made : calls[r][i] = checks[i].call
            /\ \A i \in Failing(r) : made <= i
            /\ Aborted(r) <=> (Failing(r) # {} /\ made = first)
            /\ Aborted(r) =>
                  /\ local[r].e = checks[first].fails
                  /\ AbortStream(r, checks[first].fails)
                  /\ pc[r] = "done" => ErrorCount(Events(r)) = Len(AGENT_KEYS)

\* A finished run of a request whose primary document is not base64 and whose
\* resume document is no PDF, in a process without a credential.
C20_Witness ==
    /\ pc[1] = "done"
    /\ req[1].linkedin_pdf = BadB64
    /\ req[1].resume_pdf = NotPdf
    /\ NoCredential
    /\ env.pypdf
    /\ Cardinality(Failing(1)) = 3
    /\ Len(stream[1]) = Len(AGENT_KEYS) + 1

====
